---- MODULE Spec2Model ----
(***************************************************************************)
(* A model of DiscordStore (src/src/store.ts): the schema migration run    *)
(* of init(), the schema version tracker, backupDatabase() and the record  *)
(* gateway.  The connector, the migration steps (db/schema/vN) and the     *)
(* record entities live outside the file; their calls are modelled by      *)
(* their outcome (success or a thrown error), chosen nondeterministically. *)
(***************************************************************************)
EXTENDS Integers, Sequences, FiniteSets, TLC

\* ------------------------------------------------------------------ bounds
\* Largest overrideSchema the caller passes to init() (0 = not supplied).
MaxOverride == 3
\* Number of init() calls made on one store.
MaxRuns == 2
\* Number of record-gateway calls made on one store.
MaxOps == 2
\* Number of distinct contents the database file takes.
MaxContent == 2
\* Number of backupDatabase() calls made on one store.
MaxBackups == 2

\* ------------------------------------------------------- program constants
CURRENT_SCHEMA == 10
SCHEMA_ROOM_STORE_REQUIRED == 8
SCHEMA_USER_STORE_REQUIRED == 9

\* Error messages of init().
ErrOpen == "Couldn't open database. The appservice won't be able to continue."
ErrRolledBack == "Failure to update to latest schema."
ErrFatal == "Failure to update to latest schema. And failed to rollback."
\* An error thrown by the connector's Run, propagated unchanged.
ErrConnector == "connector error"

\* A configuration field that is not set (null / undefined).
NULL == "<unset>"
MEMORY == ":memory:"
Filenames == {NULL, "", MEMORY, "discord.db"}
ConnStrings == {NULL, "postgresql://bridge"}

VARIABLES
    config,        \* this.config: [filename, connString]
    db,            \* this.db: "none" (undefined), "sqlite" or "postgres"
    schemaRow,     \* the control table `schema`: {} (table or row absent) or {version}
    pc,            \* position of the init() call
    runs,          \* number of init() calls so far
    overrideSchema,\* init()'s first argument
    version,       \* init()'s local `version`
    targetSchema,  \* init()'s local `targetSchema`
    initResult,    \* "none" while running, "ok", or the message of the error thrown
    getReply,      \* what db.Get answered to the last version query
    v0,            \* the control row when the running init() was called
    steps,         \* the steps instantiated by this run: <<[version, arg]>>
    ranOk,         \* versions whose schema.run resolved in this run
    rolled,        \* rollBack calls of this run: <<[version, ok]>>
    setCalls,      \* setSchemaVersion calls of this run: <<[version, ok]>>
    openOutcome,   \* what this.db.Open() did in this run: "none", "ok", "throw", "reject"
    resumed,       \* the previous init() was interrupted or threw the rolled-back error
    applied,       \* versions whose forward action is in effect in the database
    gwRet,         \* the last record-gateway call: [op, conn, calls, ret]
    connOps,       \* record-gateway calls carried out against the connector
    assocRow,      \* a row of user_id_discord_id exists
    tokenRow,      \* a row of discord_id_token exists
    bkPc,          \* position of the backupDatabase() call
    bkPromise,     \* the promise backupDatabase() returned
    backups,       \* number of backupDatabase() calls so far
    dbFile,        \* contents of the database file
    backupFile,    \* the file <filename>.backup: {} (absent) or {contents}
    bkPre,         \* the backup file when backupDatabase() was called
    bkResult,      \* the value the fs.access promise resolved with
    fileOps,       \* file operations of the running backupDatabase() call
    wrClosed,      \* the write stream emitted "close"
    ioError        \* the copy failed: "none", "read" or "write"

initVars == <<pc, runs, overrideSchema, version, targetSchema, initResult,
              getReply, v0, steps, ranOk, rolled, setCalls, openOutcome,
              resumed, applied>>
gwVars == <<gwRet, connOps, assocRow, tokenRow>>
bkVars == <<bkPc, bkPromise, backups, dbFile, backupFile, bkPre, bkResult,
            fileOps, wrClosed, ioError>>
vars == <<config, db, schemaRow, initVars, gwVars, bkVars>>

\* The version a control row holds, 0 for an uninitialised database.
RowVersion(row) == IF row = {} THEN 0 ELSE CHOOSE v \in row : TRUE

Rows == {{}} \cup {{v} : v \in 0..CURRENT_SCHEMA}

\* ------------------------------------------------------------ constructor
Constructor ==
    /\ config \in [filename : Filenames, connString : ConnStrings]
    /\ db = "none"

InitIdle ==
    /\ pc = "idle"
    /\ runs = 0
    /\ overrideSchema = 0
    /\ version = 0
    /\ targetSchema = 0
    /\ initResult = "none"
    /\ getReply = [kind |-> "none", version |-> 0]
    /\ v0 = schemaRow
    /\ steps = <<>>
    /\ ranOk = {}
    /\ rolled = <<>>
    /\ setCalls = <<>>
    /\ openOutcome = "none"
    /\ resumed = FALSE
    /\ applied = 1..RowVersion(schemaRow)

GwIdle ==
    /\ gwRet = [op |-> "none", conn |-> "none", calls |-> <<>>, ret |-> "none"]
    /\ connOps = 0
    /\ assocRow = FALSE
    /\ tokenRow = FALSE

BkIdle ==
    /\ bkPc = "idle"
    /\ bkPromise = "none"
    /\ backups = 0
    /\ bkPre = {}
    /\ bkResult = FALSE
    /\ fileOps = <<>>
    /\ wrClosed = FALSE
    /\ ioError = "none"

\* ------------------------------------------------------------------ init()
\* init(overrideSchema, roomStore, userStore) is called.
InitCall ==
    /\ pc \in {"idle", "ended"}
    /\ runs < MaxRuns
    /\ \E o \in 0..MaxOverride : overrideSchema' = o
    /\ runs' = runs + 1
    /\ pc' = "open"
    /\ initResult' = "none"
    /\ v0' = schemaRow
    /\ version' = 0
    /\ targetSchema' = 0
    /\ getReply' = [kind |-> "none", version |-> 0]
    /\ steps' = <<>>
    /\ ranOk' = {}
    /\ rolled' = <<>>
    /\ setCalls' = <<>>
    /\ openOutcome' = "none"
    /\ resumed' = (initResult \in {ErrRolledBack, "interrupted"})
    /\ UNCHANGED <<config, db, schemaRow, applied, gwVars, bkVars>>

\* The selection with the connection string tested first.
SelectConnector_ConnStringFirst(cfg, old) ==
    IF cfg.connString \notin {NULL, ""} THEN "postgres"
    ELSE IF cfg.filename \notin {NULL, ""} THEN "sqlite"
    ELSE old

\* The connector openDatabase() selects: a truthy filename, else a truthy
\* connString, else this.db keeps its value.
SelectConnector(cfg, old) ==
    IF cfg.filename \notin {NULL, ""} THEN "sqlite"
    ELSE IF cfg.connString \notin {NULL, ""} THEN "postgres"
    ELSE old

\* What this.db.Open() can do: the call on an undefined this.db throws; a
\* connector's Open() returns, throws, or returns a promise that rejects.
OpenOutcomes(conn) ==
    IF conn = "none" THEN {"throw"} ELSE {"ok", "throw", "reject"}

\* openDatabase(): this.db.Open() is called inside the try without await, so
\* only a synchronous throw reaches the catch block; a rejected promise is
\* dropped and init() goes on.
openDatabase ==
    /\ pc = "open"
    /\ db' = SelectConnector(config, db)
    /\ \E outcome \in OpenOutcomes(db') :
        /\ openOutcome' = outcome
        /\ IF outcome = "throw"
             THEN /\ pc' = "ended"
                  /\ initResult' = ErrOpen
             ELSE /\ pc' = "getver"
                  /\ initResult' = initResult
    /\ UNCHANGED <<config, schemaRow, runs, overrideSchema, version, targetSchema,
                   getReply, v0, steps, ranOk, rolled, setCalls, resumed,
                   applied, gwVars, bkVars>>

\* What db.Get(`SELECT version FROM schema`) can answer: it throws, or it
\* returns the row, or nothing when there is no row.
GetReplies(row) ==
    {[kind |-> "throw", version |-> 0]} \cup
    (IF row = {} THEN {[kind |-> "null", version |-> 0]}
     ELSE {[kind |-> "row", version |-> RowVersion(row)]})

\* The value getSchemaVersion() returns for a reply: versionReply!.version,
\* and 0 when Get threw or the dereference of a missing row threw.
SchemaVersionOf(reply) ==
    IF reply.kind = "row" THEN reply.version ELSE 0

\* getSchemaVersion() without its try/catch: a failed query leaves init().
getSchemaVersion_NoCatch ==
    /\ pc = "getver"
    /\ \E reply \in GetReplies(schemaRow) :
        /\ getReply' = reply
        /\ version' = SchemaVersionOf(reply)
        /\ IF reply.kind = "row"
             THEN /\ pc' = "loop"
                  /\ initResult' = initResult
             ELSE /\ pc' = "ended"
                  /\ initResult' = ErrConnector
    /\ targetSchema' = IF overrideSchema # 0 THEN overrideSchema ELSE CURRENT_SCHEMA
    /\ UNCHANGED <<config, db, schemaRow, runs, overrideSchema, v0,
                   steps, ranOk, rolled, setCalls, openOutcome, resumed,
                   applied, gwVars, bkVars>>

\* let version = await this.getSchemaVersion(); targetSchema = override || CURRENT
getSchemaVersion ==
    /\ pc = "getver"
    /\ \E reply \in GetReplies(schemaRow) :
        /\ getReply' = reply
        /\ version' = SchemaVersionOf(reply)
    /\ targetSchema' = IF overrideSchema # 0 THEN overrideSchema ELSE CURRENT_SCHEMA
    /\ pc' = "loop"
    /\ UNCHANGED <<config, db, schemaRow, runs, overrideSchema, initResult, v0,
                   steps, ranOk, rolled, setCalls, openOutcome, resumed,
                   applied, gwVars, bkVars>>

\* The constructor arguments with the two stores exchanged.
StepArg_Swapped(v) ==
    IF v = SCHEMA_ROOM_STORE_REQUIRED THEN "userStore"
    ELSE IF v = SCHEMA_USER_STORE_REQUIRED THEN "roomStore"
    ELSE "none"

\* The constructor argument of the step for version v.
StepArg(v) ==
    IF v = SCHEMA_ROOM_STORE_REQUIRED THEN "roomStore"
    ELSE IF v = SCHEMA_USER_STORE_REQUIRED THEN "userStore"
    ELSE "none"

\* The loop head persisting the version as soon as it is incremented.
LoopStep_CommitEarly ==
    /\ pc = "loop"
    /\ IF version < targetSchema
         THEN /\ version' = version + 1
              /\ steps' = Append(steps, [version |-> version + 1,
                                         arg |-> StepArg(version + 1)])
              /\ schemaRow' = {version + 1}
              /\ pc' = "run"
              /\ initResult' = initResult
         ELSE /\ pc' = "ended"
              /\ initResult' = "ok"
              /\ UNCHANGED <<version, steps, schemaRow>>
    /\ UNCHANGED <<config, db, runs, overrideSchema, targetSchema,
                   getReply, v0, ranOk, rolled, setCalls, openOutcome,
                   resumed, applied, gwVars, bkVars>>

\* while (version < targetSchema) { version++; schema = new schemaClass(..)
LoopStep ==
    /\ pc = "loop"
    /\ IF version < targetSchema
         THEN /\ version' = version + 1
              /\ steps' = Append(steps, [version |-> version + 1,
                                         arg |-> StepArg(version + 1)])
              /\ pc' = "run"
              /\ initResult' = initResult
         ELSE /\ pc' = "ended"
              /\ initResult' = "ok"
              /\ UNCHANGED <<version, steps>>
    /\ UNCHANGED <<config, db, schemaRow, runs, overrideSchema, targetSchema,
                   getReply, v0, ranOk, rolled, setCalls, openOutcome,
                   resumed, applied, gwVars, bkVars>>

\* await schema.run(this): resolves, or throws into the catch block.
RunStep ==
    /\ pc = "run"
    /\ \E ok \in BOOLEAN :
        IF ok THEN /\ ranOk' = ranOk \cup {version}
                   /\ applied' = applied \cup {version}
                   /\ pc' = "setver"
              ELSE /\ pc' = "rollback"
                   /\ ranOk' = ranOk
                   /\ applied' = applied
    /\ UNCHANGED <<config, db, schemaRow, runs, overrideSchema, version,
                   targetSchema, initResult, getReply, v0, steps, rolled,
                   setCalls, openOutcome, resumed, gwVars, bkVars>>

\* The catch block without the inner try/catch: one error whatever rollBack did.
RollBack_OneError ==
    /\ pc = "rollback"
    /\ \E ok \in BOOLEAN :
        /\ rolled' = Append(rolled, [version |-> version, ok |-> ok])
        /\ initResult' = ErrRolledBack
        /\ applied' = IF ok THEN applied \ {version} ELSE applied
    /\ pc' = "ended"
    /\ UNCHANGED <<config, db, schemaRow, runs, overrideSchema, version,
                   targetSchema, getReply, v0, steps, ranOk, setCalls,
                   openOutcome, resumed, gwVars, bkVars>>

\* catch (ex) { try { await schema.rollBack(this) } catch { throw fatal } throw }
RollBack ==
    /\ pc = "rollback"
    /\ \E ok \in BOOLEAN :
        /\ rolled' = Append(rolled, [version |-> version, ok |-> ok])
        /\ initResult' = IF ok THEN ErrRolledBack ELSE ErrFatal
        /\ applied' = IF ok THEN applied \ {version} ELSE applied
    /\ pc' = "ended"
    /\ UNCHANGED <<config, db, schemaRow, runs, overrideSchema, version,
                   targetSchema, getReply, v0, steps, ranOk, setCalls,
                   openOutcome, resumed, gwVars, bkVars>>

\* setSchemaVersion called inside the try block: its failure enters the catch
\* block and rolls the step back.
setSchemaVersion_InsideTry ==
    /\ pc = "setver"
    /\ \E ok \in BOOLEAN :
        /\ setCalls' = Append(setCalls, [version |-> version, ok |-> ok])
        /\ IF ok THEN /\ schemaRow' = {version}
                      /\ pc' = "loop"
                 ELSE /\ schemaRow' = schemaRow
                      /\ pc' = "rollback"
    /\ UNCHANGED <<config, db, runs, overrideSchema, version, targetSchema,
                   initResult, getReply, v0, steps, ranOk, rolled, openOutcome,
                   resumed, applied, gwVars, bkVars>>

\* await this.setSchemaVersion(version): UPDATE schema SET version = $ver.
\* The control table and its row are created by the forward action of the
\* first step, which has run before any call made on a fresh database; a Run
\* that resolves has written the row, a Run that throws has not, and its
\* error leaves init() unchanged.
setSchemaVersion ==
    /\ pc = "setver"
    /\ \E ok \in BOOLEAN :
        /\ setCalls' = Append(setCalls, [version |-> version, ok |-> ok])
        /\ IF ok THEN /\ schemaRow' = {version}
                      /\ pc' = "loop"
                      /\ initResult' = initResult
                 ELSE /\ schemaRow' = schemaRow
                      /\ pc' = "ended"
                      /\ initResult' = ErrConnector
    /\ UNCHANGED <<config, db, runs, overrideSchema, version, targetSchema,
                   getReply, v0, steps, ranOk, rolled, openOutcome, resumed,
                   applied, gwVars, bkVars>>

\* The process is stopped while init() is running; the next init() is called
\* on a new store of a new process.
Interrupt ==
    /\ pc \in {"open", "getver", "loop", "run", "rollback", "setver"}
    /\ pc' = "ended"
    /\ initResult' = "interrupted"
    /\ db' = "none"
    /\ UNCHANGED <<config, schemaRow, runs, overrideSchema, version, targetSchema,
                   getReply, v0, steps, ranOk, rolled, setCalls, openOutcome,
                   resumed, applied, gwVars, bkVars>>

\* ------------------------------------------------------- record gateway
\* One call made by a gateway method and how it ended: "ok" (or what a query
\* found) or the error it threw.
Call(method, result) == [method |-> method, result |-> result]

\* A gateway method has run: the calls it made, what its caller gets, and
\* whether there was a connector to carry them out.
Issue(op, calls, ret) ==
    /\ gwRet' = [op |-> op, conn |-> db, calls |-> calls, ret |-> ret]
    /\ connOps' = IF db = "none" THEN connOps ELSE connOps + 1

GwGuard == db # "none" => connOps < MaxOps

\* How a call on the entity or the connector can end: with this.db undefined
\* the access to it throws a TypeError.
Results(good, method) ==
    IF db = "none" THEN {"TypeError"} ELSE good \cup {"error:" \o method}

\* Get with the catch block rethrowing.
Get_Propagates ==
    /\ GwGuard
    /\ \E q \in Results({"rows", "norows"}, "RunQuery") :
        Issue("Get", <<Call("RunQuery", q)>>,
              CASE q = "rows" -> "entity:result"
                [] q = "norows" -> "entity:empty"
                [] OTHER -> q)
    /\ UNCHANGED <<config, db, schemaRow, initVars, assocRow, tokenRow, bkVars>>

\* Get(dbType, params): the fresh entity when RunQuery resolves (with or
\* without a result), null when it throws.
Get ==
    /\ GwGuard
    /\ \E q \in Results({"rows", "norows"}, "RunQuery") :
        Issue("Get", <<Call("RunQuery", q)>>,
              CASE q = "rows" -> "entity:result"
                [] q = "norows" -> "entity:empty"
                [] OTHER -> "null")
    /\ UNCHANGED <<config, db, schemaRow, initVars, assocRow, tokenRow, bkVars>>

\* A write that catches the entity's error and throws a new one, as
\* createTable does.
Write_Wrapped(op) ==
    /\ GwGuard
    /\ \E r \in Results({"ok"}, op) :
        Issue(op, <<Call(op, r)>>, IF r = "ok" THEN r ELSE "Error: " \o r)
    /\ UNCHANGED <<config, db, schemaRow, initVars, assocRow, tokenRow, bkVars>>

\* Insert / Update / Delete(data): await data.<Op>(this); an error propagates.
Write(op) ==
    /\ GwGuard
    /\ \E r \in Results({"ok"}, op) :
        Issue(op, <<Call(op, r)>>, r)
    /\ UNCHANGED <<config, db, schemaRow, initVars, assocRow, tokenRow, bkVars>>

Insert == Write("Insert")
Update == Write("Update")
Delete == Write("Delete")

\* What Promise.all of two Runs gives: "ok" when both resolve, else the
\* rejection that came first.
AllOf(r1, r2) ==
    IF r1 = "ok" /\ r2 = "ok" THEN {"ok"} ELSE {r1, r2} \ {"ok"}

\* The two Runs of addUserToken / deleteUserToken; with this.db undefined the
\* first this.db.Run throws before any statement is issued.
AssocRun == "Run:user_id_discord_id"
TokenRun == "Run:discord_id_token"

\* addUserToken awaiting the first INSERT before it issues the second.
addUserToken_Sequential ==
    /\ GwGuard
    /\ IF db = "none"
         THEN /\ Issue("addUserToken", <<>>, "TypeError")
              /\ UNCHANGED <<assocRow, tokenRow>>
         ELSE \E r1 \in Results({"ok"}, AssocRun), r2 \in Results({"ok"}, TokenRun) :
                /\ assocRow' = (assocRow \/ r1 = "ok")
                /\ tokenRow' = (tokenRow \/ (r1 = "ok" /\ r2 = "ok"))
                /\ IF r1 = "ok"
                     THEN Issue("addUserToken",
                                <<Call(AssocRun, r1), Call(TokenRun, r2)>>, r2)
                     ELSE Issue("addUserToken", <<Call(AssocRun, r1)>>, r1)
    /\ UNCHANGED <<config, db, schemaRow, initVars, bkVars>>

\* addUserToken: Promise.all of two INSERTs, both issued at once; each takes
\* effect when its Run resolves, and the first rejection is rethrown.
addUserToken ==
    /\ GwGuard
    /\ IF db = "none"
         THEN /\ Issue("addUserToken", <<>>, "TypeError")
              /\ UNCHANGED <<assocRow, tokenRow>>
         ELSE \E r1 \in Results({"ok"}, AssocRun), r2 \in Results({"ok"}, TokenRun) :
                /\ assocRow' = (assocRow \/ r1 = "ok")
                /\ tokenRow' = (tokenRow \/ r2 = "ok")
                /\ \E ret \in AllOf(r1, r2) :
                     Issue("addUserToken",
                           <<Call(AssocRun, r1), Call(TokenRun, r2)>>, ret)
    /\ UNCHANGED <<config, db, schemaRow, initVars, bkVars>>

\* deleteUserToken: Promise.all of two DELETEs.
deleteUserToken ==
    /\ GwGuard
    /\ IF db = "none"
         THEN /\ Issue("deleteUserToken", <<>>, "TypeError")
              /\ UNCHANGED <<assocRow, tokenRow>>
         ELSE \E r1 \in Results({"ok"}, AssocRun), r2 \in Results({"ok"}, TokenRun) :
                /\ assocRow' = (assocRow /\ r1 # "ok")
                /\ tokenRow' = (tokenRow /\ r2 # "ok")
                /\ \E ret \in AllOf(r1, r2) :
                     Issue("deleteUserToken",
                           <<Call(AssocRun, r1), Call(TokenRun, r2)>>, ret)
    /\ UNCHANGED <<config, db, schemaRow, initVars, bkVars>>

\* getUserDiscordIds: the discord ids of the rows, [] for none, or the error.
getUserDiscordIds ==
    /\ GwGuard
    /\ \E r \in Results({"ok"}, "All") :
        Issue("getUserDiscordIds", <<Call("All", r)>>,
              IF r # "ok" THEN r ELSE IF assocRow THEN "ids" ELSE "[]")
    /\ UNCHANGED <<config, db, schemaRow, initVars, assocRow, tokenRow, bkVars>>

\* getToken: the token of the row, "" for no row, or the error.
getToken ==
    /\ GwGuard
    /\ \E r \in Results({"ok"}, "Get") :
        Issue("getToken", <<Call("Get", r)>>,
              IF r # "ok" THEN r ELSE IF tokenRow THEN "token" ELSE "")
    /\ UNCHANGED <<config, db, schemaRow, initVars, assocRow, tokenRow, bkVars>>

Gateway ==
    \/ Get
    \/ Insert
    \/ Update
    \/ Delete
    \/ addUserToken
    \/ deleteUserToken
    \/ getUserDiscordIds
    \/ getToken

\* -------------------------------------------------------- backupDatabase()
\* The early returns without the test for ":memory:".
NoBackupTarget_NullOnly(filename) == filename = NULL

\* The two early returns of backupDatabase().
NoBackupTarget(filename) == filename = NULL \/ filename = MEMORY

\* First settlement wins: resolve / reject of a settled promise do nothing.
Settle(promise, how) == IF promise = "pending" THEN how ELSE promise

\* backupDatabase() is called: it returns at once, or issues fs.access.
backupDatabase ==
    /\ bkPc \in {"idle", "done"}
    /\ backups < MaxBackups
    /\ backups' = backups + 1
    /\ bkPre' = backupFile
    /\ bkResult' = FALSE
    /\ wrClosed' = FALSE
    /\ ioError' = "none"
    /\ IF NoBackupTarget(config.filename)
         THEN /\ bkPc' = "done"
              /\ bkPromise' = "resolved"
              /\ fileOps' = <<>>
         ELSE /\ bkPc' = "access"
              /\ bkPromise' = "pending"
              /\ fileOps' = <<"access">>
    /\ UNCHANGED <<config, db, schemaRow, initVars, gwVars, dbFile, backupFile>>

\* fs.access(BACKUP_NAME, (err) => resolve(err === null)): err is null when
\* the file exists.
AccessResult(backup) == backup # {}

AccessDone ==
    /\ bkPc = "access"
    /\ bkResult' = AccessResult(backupFile)
    /\ bkPc' = "then"
    /\ UNCHANGED <<config, db, schemaRow, initVars, gwVars, bkPromise, backups,
                   dbFile, backupFile, bkPre, fileOps, wrClosed, ioError>>

\* The executor of the second promise: if (!result) { warn; resolve(true) }
\* without a return, then both streams are created and piped.
ThenCopy ==
    /\ bkPc = "then"
    /\ bkPromise' = IF ~bkResult THEN Settle(bkPromise, "resolved") ELSE bkPromise
    /\ fileOps' = fileOps \o <<"read", "write">>
    /\ bkPc' = "copy"
    /\ UNCHANGED <<config, db, schemaRow, initVars, gwVars, backups, dbFile,
                   backupFile, bkPre, bkResult, wrClosed, ioError>>

\* The piped copy: wr emits "close" after the last byte; rd or wr emits
\* "error".  The write stream opens the backup with flag "w", so a failed copy
\* leaves it empty or partial (contents 0) unless the open itself failed.
CopyStep ==
    /\ bkPc = "copy"
    /\ \/ /\ ioError' = "none"
          /\ backupFile' = {dbFile}
          /\ wrClosed' = TRUE
          /\ bkPromise' = Settle(bkPromise, "resolved")
       \/ /\ ioError' = "read"
          /\ backupFile' = {0}
          /\ wrClosed' = FALSE
          /\ bkPromise' = Settle(bkPromise, "rejected")
       \/ /\ ioError' = "write"
          /\ backupFile' \in {backupFile, {0}}
          /\ wrClosed' = TRUE
          /\ bkPromise' = Settle(bkPromise, "rejected")
    /\ bkPc' = "done"
    /\ UNCHANGED <<config, db, schemaRow, initVars, gwVars, backups, dbFile,
                   bkPre, bkResult, fileOps>>

\* The bridge writes to its database file.
ModifyDb ==
    /\ dbFile < MaxContent
    /\ dbFile' = dbFile + 1
    /\ UNCHANGED <<config, db, schemaRow, initVars, gwVars, bkPc, bkPromise,
                   backups, backupFile, bkPre, bkResult, fileOps, wrClosed, ioError>>

Backup ==
    \/ backupDatabase
    \/ AccessDone
    \/ ThenCopy
    \/ CopyStep
    \/ ModifyDb

\* ---------------------------------------------------------- specifications
Init ==
    /\ Constructor
    /\ schemaRow \in Rows
    /\ InitIdle
    /\ GwIdle
    /\ BkIdle
    /\ dbFile = 1
    /\ backupFile = {}

Migration ==
    \/ InitCall
    \/ openDatabase
    \/ getSchemaVersion
    \/ LoopStep
    \/ RunStep
    \/ RollBack
    \/ setSchemaVersion
    \/ Interrupt

Next == Migration

\* The migration runs of init() on a database at any schema version.
Spec == Init /\ [][Next]_vars

\* init() and the record gateway on a fresh or an up-to-date database.
ServeInit ==
    /\ Init
    /\ schemaRow \in {{}, {CURRENT_SCHEMA - 1}}
    /\ config.filename \in {NULL, "discord.db"}

\* One init() call, and the gateway calls made before, during and after it.
ServeNext ==
    \/ Migration /\ runs' = 1
    \/ Gateway

ServeSpec == ServeInit /\ [][ServeNext]_vars

\* The record gateway on a store whose init() finds the database up to date
\* (the version query answers and no step is outstanding).
GatewayInit ==
    /\ Init
    /\ schemaRow = {CURRENT_SCHEMA}

GatewayNext ==
    \/ (InitCall \/ openDatabase \/ LoopStep) /\ runs' = 1
    \/ getSchemaVersion /\ getReply'.kind = "row"
    \/ Gateway

GatewaySpec == GatewayInit /\ [][GatewayNext]_vars

\* backupDatabase() on a database file that the bridge keeps writing to.
BackupInit ==
    /\ Constructor
    /\ schemaRow = {}
    /\ InitIdle
    /\ GwIdle
    /\ BkIdle
    /\ dbFile = 1
    /\ backupFile \in {{}, {1}}

BackupNext == Backup

BackupSpec == BackupInit /\ [][BackupNext]_vars

\* ------------------------------------------------------ migration run: claims
\* The version the control row held when the running init() was called.
StartVersion == RowVersion(v0)
\* The versions of the steps this run instantiated.
StepVersions == {steps[i].version : i \in DOMAIN steps}
\* The versions this run passed to setSchemaVersion.
SetVersions == {setCalls[i].version : i \in DOMAIN setCalls}
\* The setSchemaVersion calls of this run that resolved.
Committed == SelectSeq(setCalls, LAMBDA c : c.ok)
\* init() has returned or thrown.
Ended == pc = "ended"

\* C1: for every persisted version v0 < target, when every forward action and
\* every setSchemaVersion succeeds, init() ends normally with the persisted
\* version equal to target, and setSchemaVersion was called exactly once for
\* each of v0+1 .. target, in increasing order, and with no other value.
C1_EveryVersionSetOnce ==
    (/\ Ended
     /\ initResult \notin {ErrOpen, ErrRolledBack, ErrFatal, ErrConnector,
                           "interrupted"}
     /\ StartVersion < targetSchema)
    => /\ initResult = "ok"
       /\ schemaRow = {targetSchema}
       /\ setCalls = [i \in 1..(targetSchema - StartVersion) |->
                        [version |-> StartVersion + i, ok |-> TRUE]]

\* C2: when the forward action of step k fails and its rollBack succeeds,
\* init() throws "Failure to update to latest schema.", the persisted version
\* is k-1, setSchemaVersion(k) is never called and no step above k is
\* instantiated.
C2_RolledBackLeavesPrevious ==
    (Ended /\ rolled # <<>> /\ rolled[1].ok)
    => /\ initResult = ErrRolledBack
       /\ RowVersion(schemaRow) = rolled[1].version - 1
       /\ rolled[1].version \notin SetVersions
       /\ \A v \in StepVersions : v <= rolled[1].version

\* C3: when the forward action of step k fails and its rollBack fails too,
\* init() throws the fatal error, which differs from the rolled-back one; the
\* run has written no version above k-1, the persisted version is the one the
\* run last committed (or the one it started from), and no step above k is
\* instantiated.
C3_FatalOnFailedRollback ==
    (Ended /\ rolled # <<>> /\ ~rolled[1].ok)
    => /\ initResult = ErrFatal
       /\ initResult # ErrRolledBack
       /\ Len(rolled) = 1
       /\ \A v \in SetVersions : v < rolled[1].version
       /\ schemaRow = IF setCalls = <<>> THEN v0 ELSE {rolled[1].version - 1}
       /\ \A v \in StepVersions : v <= rolled[1].version

\* A run that committed at least one step and then failed fatally.
C3_Witness ==
    /\ Ended
    /\ initResult = ErrFatal
    /\ setCalls # <<>>
    /\ ~rolled[1].ok

\* C4: the persisted version is never updated before a step succeeds: every
\* setSchemaVersion(v) follows the successful forward action of step v of
\* the same run, the control row changes only to the version of that step,
\* and it always holds the version last committed.
C4_VersionWrittenAfterRun ==
    [][/\ \A v \in SetVersions' : v \in ranOk'
       /\ schemaRow' # schemaRow =>
            /\ pc = "setver"
            /\ version \in ranOk
            /\ schemaRow' = {version}
       /\ schemaRow' = IF Committed' = <<>> THEN v0'
                       ELSE {Committed'[Len(Committed')].version}]_vars

\* A run in which a version has just been committed after its step ran.
C4_Witness ==
    /\ pc = "loop"
    /\ setCalls # <<>>
    /\ schemaRow = {version}
    /\ schemaRow # v0
    /\ version \in ranOk

\* C8: getSchemaVersion() never fails: it returns 0 when the control row is
\* absent or the query throws, and the stored version otherwise.
C8_VersionQueryNeverFails ==
    [][(pc = "getver" /\ pc' # pc /\ initResult' # "interrupted")
         => /\ pc' = "loop"
            /\ initResult' = "none"
            /\ version' = IF getReply'.kind = "throw" \/ schemaRow = {} THEN 0
                          ELSE RowVersion(schemaRow)]_vars

\* The version query threw on a migrated database and init() went on from 0.
C8_Witness ==
    /\ pc = "loop"
    /\ steps = <<>>
    /\ getReply.kind = "throw"
    /\ schemaRow # {}
    /\ RowVersion(schemaRow) > 0
    /\ version = 0

\* C9: when setSchemaVersion(k) fails after the forward action of step k
\* succeeded, init() aborts with that error, the persisted version remains
\* k-1 and no step above k runs.
C9_FailedSetVersionAborts ==
    (Ended /\ setCalls # <<>> /\ ~setCalls[Len(setCalls)].ok)
    => /\ initResult = ErrConnector
       /\ RowVersion(schemaRow) = setCalls[Len(setCalls)].version - 1
       /\ \A v \in StepVersions : v <= setCalls[Len(setCalls)].version

\* C10: once init() has ended with the fatal error, no record-gateway
\* operation is carried out against the connector.
C10_NoServingAfterFatal ==
    [][(Ended /\ initResult = ErrFatal) => connOps' = connOps]_vars

\* ------------------------------------------------------------ backup: claims
\* backupDatabase() has been called on a file that can be backed up.
BackupAttempted == bkPc # "idle" /\ ~NoBackupTarget(config.filename)

\* C5: backupDatabase() never overwrites an existing snapshot: when the backup
\* file exists at the call, no write stream to it is opened and its contents
\* are unchanged.
C5_NeverOverwritesSnapshot ==
    (BackupAttempted /\ bkPre # {})
    => /\ "write" \notin {fileOps[i] : i \in DOMAIN fileOps}
       /\ backupFile = bkPre

\* C6: with no backup file, backupDatabase() copies the database file and
\* completes only after the write stream closed; when the copy fails the
\* promise is rejected, not resolved.
C6_CompletesAfterCopy ==
    (BackupAttempted /\ bkPre = {})
    => /\ bkPromise = "resolved" => (wrClosed /\ ioError = "none")
       /\ bkPc = "done" =>
            /\ ioError = "none" => (backupFile # {} /\ bkPromise = "resolved")
            /\ ioError # "none" => bkPromise = "rejected"

C11_FailedOpenStopsInit ==
    openOutcome \in {"throw", "reject"}
    => /\ initResult # "ok"
       /\ Ended => initResult \in {ErrOpen, "interrupted"}
       /\ getReply.kind = "none"
       /\ steps = <<>>
       /\ setCalls = <<>>

\* C12: an init() that follows an interrupted or rolled-back run with persisted
\* version c executes step c+1 first and no step at or below c, and ends with
\* the persisted version equal to target when all its steps succeed.
C12_ResumesAtCommitted ==
    resumed
    => /\ steps # <<>> => steps[1].version = StartVersion + 1
       /\ \A v \in StepVersions : v > StartVersion
       /\ (/\ Ended
           /\ initResult \notin {ErrOpen, ErrRolledBack, ErrFatal, ErrConnector,
                                 "interrupted"}
           /\ StartVersion < targetSchema)
          => schemaRow = {targetSchema}

\* C16: a configured file path selects the SQLite connector even when a
\* connection string is configured too; Postgres is selected only with no
\* file path and a connection string; after a successful open exactly one
\* connector is active.
C16_FilePathTakesPrecedence ==
    (openOutcome = "ok" /\ initResult # "interrupted")
    => /\ db \in {"sqlite", "postgres"}
       /\ config.filename \notin {NULL, ""} => db = "sqlite"
       /\ db = "postgres" <=> (/\ config.filename \in {NULL, ""}
                               /\ config.connString \notin {NULL, ""})

\* Both a file path and a connection string are configured and the store
\* opened SQLite.
C16_Witness ==
    /\ openOutcome = "ok"
    /\ pc = "getver"
    /\ config.filename = "discord.db"
    /\ config.connString # NULL
    /\ db = "sqlite"

\* C17: the step for version 8 is constructed with the room store, the step
\* for version 9 with the user store, every other step with no argument.
C17_CollaboratorPerStep ==
    \A i \in DOMAIN steps :
        steps[i].arg = CASE steps[i].version = 8 -> "roomStore"
                         [] steps[i].version = 9 -> "userStore"
                         [] OTHER -> "none"

\* A run that constructed the steps for versions 7, 8 and 9.
C17_Witness ==
    /\ {7, 8, 9} \subseteq StepVersions
    /\ \E i \in DOMAIN steps : steps[i].arg = "roomStore"
    /\ \E i \in DOMAIN steps : steps[i].arg = "userStore"

\* C18: the target is the override when supplied (not 0) and CURRENT_SCHEMA
\* otherwise; with the current version at or above the target init() runs no
\* step, no rollback and no setSchemaVersion and ends normally; the persisted
\* version never decreases across init() runs.
C18_TargetAndMonotonic ==
    [][/\ (pc = "getver" /\ pc' = "loop")
            => targetSchema' = IF overrideSchema = 0 THEN CURRENT_SCHEMA
                               ELSE overrideSchema
       /\ (pc = "loop" /\ version >= targetSchema /\ pc' # pc
              /\ initResult' # "interrupted")
            => /\ pc' = "ended"
               /\ initResult' = "ok"
               /\ UNCHANGED <<steps, rolled, setCalls, schemaRow>>
       /\ RowVersion(schemaRow') >= RowVersion(schemaRow)]_vars

\* C19: in one init() run rollBack is invoked at most once, on the step whose
\* forward action has just failed, never on a step whose forward action
\* succeeded or whose version was passed to setSchemaVersion.
C19_RollbackLocalToFailedStep ==
    /\ Len(rolled) <= 1
    /\ \A i \in DOMAIN rolled :
        /\ rolled[i].version \notin ranOk
        /\ rolled[i].version \notin SetVersions
        /\ rolled[i].version = steps[Len(steps)].version

\* A run that committed steps and then rolled back the one that failed.
C19_Witness ==
    /\ Ended
    /\ Len(rolled) = 1
    /\ ranOk # {}
    /\ setCalls # <<>>

\* C20: across init() runs no step's forward action is applied successfully
\* while its effect is already in the database (applied before and not
\* rolled back since).
C20_NoStepAppliedTwice ==
    [][(pc = "run" /\ pc' = "setver") => version \notin applied]_vars

\* ---------------------------------------------------- record gateway: claims
\* C13: Get constructs a fresh entity and runs its query once; it returns the
\* entity when RunQuery completes (also with no row found) and null when
\* RunQuery fails, and never hands the error to its caller.
C13_GetSwallowsErrors ==
    gwRet.op = "Get"
    => /\ Len(gwRet.calls) = 1
       /\ gwRet.calls[1].method = "RunQuery"
       /\ gwRet.calls[1].result = "rows" => gwRet.ret = "entity:result"
       /\ gwRet.calls[1].result = "norows" => gwRet.ret = "entity:empty"
       /\ gwRet.calls[1].result \notin {"rows", "norows"} => gwRet.ret = "null"

\* RunQuery failed against an open connector and Get returned null.
C13_Witness ==
    /\ gwRet.op = "Get"
    /\ gwRet.conn # "none"
    /\ gwRet.calls[1].result = "error:RunQuery"
    /\ gwRet.ret = "null"

\* C14: Insert, Update and Delete each invoke the entity's own action of the
\* same name exactly once and hand its failure to the caller unchanged.
C14_WritesPropagateUnchanged ==
    gwRet.op \in {"Insert", "Update", "Delete"}
    => /\ Len(gwRet.calls) = 1
       /\ gwRet.calls[1].method = gwRet.op
       /\ gwRet.ret = gwRet.calls[1].result

\* The entity's Update failed against an open connector and the caller got
\* that error.
C14_Witness ==
    /\ gwRet.op = "Update"
    /\ gwRet.conn # "none"
    /\ gwRet.ret = "error:Update"

\* C15: addUserToken issues both inserts and succeeds only when both succeed;
\* when one fails the caller gets the error of a failed insert, and an insert
\* that succeeded stays in the database.
C15_TokenInsertsNotAtomic ==
    (gwRet.op = "addUserToken" /\ gwRet.conn # "none")
    => /\ Len(gwRet.calls) = 2
       /\ gwRet.calls[1].method = "Run:user_id_discord_id"
       /\ gwRet.calls[2].method = "Run:discord_id_token"
       /\ gwRet.ret = "ok" <=> (/\ gwRet.calls[1].result = "ok"
                                /\ gwRet.calls[2].result = "ok")
       /\ gwRet.ret # "ok" =>
            \E i \in 1..2 : /\ gwRet.calls[i].result # "ok"
                            /\ gwRet.ret = gwRet.calls[i].result
       /\ gwRet.calls[1].result = "ok" => assocRow
       /\ gwRet.calls[2].result = "ok" => tokenRow

\* A failed addUserToken that left exactly one of the two rows behind.
C15_Witness ==
    /\ gwRet.op = "addUserToken"
    /\ gwRet.ret = "error:Run:user_id_discord_id"
    /\ ~assocRow
    /\ tokenRow

====
